---------------------------- MODULE Spec2Model ----------------------------
(***************************************************************************)
(* PPE Relay (pay-per-event relay): the credit aggregation over upstream   *)
(* zap receipts, the admission hook of the relay, and the balance bot.     *)
(*                                                                         *)
(* Three specifications over one state:                                    *)
(*   SpecZaps  one call of GetZapsTotalFromUser, statement by statement:   *)
(*             the subscription loop of GetZapEventsFromUser and the       *)
(*             summation loop over the collected map;                      *)
(*   Spec      the admission path of the relay process: the hooks of       *)
(*             concurrent connections, the store, the upstream receipts;   *)
(*   SpecBot   the HandleBotCommands loop, with the store and the          *)
(*             upstream receipts changing under it.                        *)
(***************************************************************************)
EXTENDS Bags, FiniteSets, Integers, Sequences, TLC

(***************************************************************************)
(* Bounds of the model.                                                    *)
(***************************************************************************)
\* receipts held by the upstream relays, summed over the relays
MaxUpstream == 2
\* events a relay sends a second time within one subscription
MaxDup == 1
\* connections whose admission hooks run concurrently
NumConns == 2
\* candidate records per author
MaxNotes == 2
\* records the bot's subscription delivers
MaxSeen == 2
\* admitted records that are deleted and not stored again (SpecSeqDelete)
MaxDeleted == 1

(***************************************************************************)
(* Program constants.                                                      *)
(***************************************************************************)
\* main.go:160  total / 1000
MilliPerUnit == 1000

\* main.go:31-41: the endpoint list, in list order (the first two of nine)
relays == << "wss://relay.snort.social", "wss://nos.lol" >>

Relays == { relays[i] : i \in DOMAIN relays }

\* authors (public keys); a signed record never has an empty author
Authors == { "alice", "bob" }

None == "none"

\* the connections of the relay's clients
Conns == 1..NumConns

\* the records (text notes) clients submit: each has an id and an author
Notes == { [ ID |-> << a, n >>, PubKey |-> a ] : a \in Authors, n \in 1..MaxNotes }

NoEvent == [ ID |-> << "", 0 >>, PubKey |-> "" ]

\* the private keys of the environment and their public keys
\* (nostr.GetPublicKey); botPubkey is that of BOT_PRIVATE_KEY
BotPrivateKey == "bot-sk"
OtherPrivateKey == "gm-sk"
GetPublicKey(sk) == IF sk = BotPrivateKey THEN "operator" ELSE "gm-operator"
botPubkey == GetPublicKey(BotPrivateKey)

\* the text notes addressed to the operator that the bot's subscription may
\* deliver; Content is the text, character by character
Queries ==
  { [ ID |-> "q1", PubKey |-> "alice",
      Content |-> << "m","y"," ","b","a","l","a","n","c","e","?" >> ],
    [ ID |-> "q2", PubKey |-> "bob",
      Content |-> << "B","a","l","a","n","c","e" >> ],
    [ ID |-> "q3", PubKey |-> "alice",
      Content |-> << "b","a","l","a","n","c","e","d" >> ] }

NoQuery == [ ID |-> "", PubKey |-> "", Content |-> << >> ]

\* HandleBotCommands has not started
BotOff == [ pc |-> "off", event |-> NoQuery, fulfilled |-> FALSE,
            userPaidAmount |-> 0, response |-> << >>, i |-> 0 ]

\* a connection on which no admission hook is running
IdleHook == [ pc |-> "idle", event |-> NoEvent, userPaidAmount |-> 0,
              userNotesCount |-> 0, reject |-> FALSE, msg |-> "" ]

(***************************************************************************)
(* Strings the code parses.  A description is the text of a JSON object,   *)
(* kept as its tokens; an invoice is its prefix and its amount.            *)
(***************************************************************************)
DescriptionOf(pk) == << "{", "pubkey", pk, "}" >>
DescriptionNoPayer == << "{", "content", "zap!", "}" >>
DescriptionNotJSON == << "pubkey", "alice" >>
EmptyString == << >>

InvoiceOf(msat) == << "lnbc", msat >>
InvoiceGarbage == << "not-an-invoice" >>

\* the "p" tag addressing the operator, which the subscription filters on
OperatorTag == << "p", "operator" >>

(***************************************************************************)
(* The zap receipts (kind 9735 events) the upstream relays may hold: id -> *)
(* tags.  The id of a signed event determines its content.                 *)
(***************************************************************************)
ZapTags ==
  [ z1  |-> << OperatorTag, <<"bolt11", InvoiceOf(500)>>,
               <<"description", DescriptionOf("alice")>> >>,
    z2  |-> << OperatorTag, <<"description">>,
               <<"description", DescriptionOf("alice")>>,
               <<"bolt11", InvoiceOf(500)>> >>,
    z3  |-> << OperatorTag, <<"bolt11", InvoiceOf(1500)>>,
               <<"description", DescriptionOf("alice")>> >>,
    z4  |-> << OperatorTag, <<"bolt11", InvoiceOf(2000)>>,
               <<"description", DescriptionOf("bob")>> >>,
    z5  |-> << OperatorTag, <<"bolt11", InvoiceOf(3000)>> >>,
    z6  |-> << OperatorTag, <<"bolt11", InvoiceOf(3000)>>,
               <<"description", DescriptionNotJSON>> >>,
    z7  |-> << OperatorTag, <<"bolt11", InvoiceOf(3000)>>,
               <<"description", DescriptionNoPayer>> >>,
    z8  |-> << OperatorTag, <<"description", DescriptionOf("alice")>> >>,
    z9  |-> << OperatorTag, <<"description", DescriptionOf("alice")>>,
               <<"bolt11">> >>,
    z10 |-> << << >>, OperatorTag, <<"description", DescriptionOf("alice")>>,
               <<"bolt11", InvoiceOf(3000)>> >>,
    z11 |-> << OperatorTag, <<"description", DescriptionOf("alice")>>,
               <<"bolt11", InvoiceGarbage>> >> ]

ZapIds == DOMAIN ZapTags

ZapEvent(id) == [ ID |-> id, Tags |-> ZapTags[id] ]

(***************************************************************************)
(* json.Unmarshal into Description: an error unless the text is an object  *)
(* of key/value pairs; PubKey is the value of "pubkey", "" when absent.    *)
(***************************************************************************)
JsonIsObject(s) ==
  /\ Len(s) >= 2
  /\ s[1] = "{"
  /\ s[Len(s)] = "}"
  /\ (Len(s) - 2) % 2 = 0

JsonField(s, key) ==
  LET at == { i \in 2..(Len(s) - 2) : i % 2 = 0 /\ s[i] = key }
  IN  IF at = {} THEN ""
      ELSE s[(CHOOSE i \in at : \A j \in at : j <= i) + 1]

\* a parser that takes whatever follows a "pubkey" token, object or not
JsonUnmarshalLenient(s) ==
  LET at == { i \in 1..(Len(s) - 1) : s[i] = "pubkey" }
  IN  [ err |-> FALSE,
        PubKey |-> IF at = {} THEN ""
                   ELSE s[(CHOOSE i \in at : \A j \in at : i <= j) + 1] ]

JsonUnmarshal(s) ==
  IF JsonIsObject(s)
  THEN [ err |-> FALSE, PubKey |-> JsonField(s, "pubkey") ]
  ELSE [ err |-> TRUE, PubKey |-> "" ]

(***************************************************************************)
(* GetZapRequestFromZapEvent: the value of the first tag of length > 1     *)
(* named "description"; an error when there is none or it is empty,        *)
(* otherwise the result of parsing it.                                     *)
(***************************************************************************)
DescriptionJSON(event) ==
  LET at == { i \in DOMAIN event.Tags :
                Len(event.Tags[i]) > 1 /\ event.Tags[i][1] = "description" }
  IN  IF at = {} THEN EmptyString
      ELSE event.Tags[CHOOSE i \in at : \A j \in at : i <= j][2]

GetZapRequestFromZapEvent(event) ==
  IF DescriptionJSON(event) = EmptyString
  THEN [ err |-> TRUE, PubKey |-> "" ]
  ELSE JsonUnmarshal(DescriptionJSON(event))

(***************************************************************************)
(* ValueFromTag: walks the tags in order, reading tag[0] of each and       *)
(* tag[1] of the first whose tag[0] is the key.  Neither index is guarded: *)
(* an empty tag before the match, or a match of length 1, is an index out  *)
(* of range (a run-time panic).                                            *)
(***************************************************************************)
RECURSIVE ValueFromTagAt(_, _, _)
ValueFromTagAt(tags, key, i) ==
  IF i > Len(tags) THEN [ panic |-> FALSE, err |-> TRUE, value |-> EmptyString ]
  ELSE IF Len(tags[i]) = 0
       THEN [ panic |-> TRUE, err |-> FALSE, value |-> EmptyString ]
  ELSE IF tags[i][1] = key
       THEN IF Len(tags[i]) < 2
            THEN [ panic |-> TRUE, err |-> FALSE, value |-> EmptyString ]
            ELSE [ panic |-> FALSE, err |-> FALSE, value |-> tags[i][2] ]
  ELSE ValueFromTagAt(tags, key, i + 1)

ValueFromTag(event, key) == ValueFromTagAt(event.Tags, key, 1)

(***************************************************************************)
(* decodepay.Decodepay: the amount of a well-formed invoice in             *)
(* millisatoshi, an error otherwise.                                       *)
(***************************************************************************)
Decodepay(bolt11) ==
  IF Len(bolt11) = 2 /\ bolt11[1] = "lnbc"
  THEN [ err |-> FALSE, MSatoshi |-> bolt11[2] ]
  ELSE [ err |-> TRUE, MSatoshi |-> 0 ]


(***************************************************************************)
(* log.Fatalf: the message is logged and os.Exit(1) ends the process, all  *)
(* goroutines with it; the caller stays at the call.                       *)
(***************************************************************************)
\* log.Printf: the message is logged and the process goes on
FatalfReturns == "running"

Fatalf == "fatal"

(***************************************************************************)
(* State.                                                                  *)
(***************************************************************************)
VARIABLES
  \* what each upstream relay holds: relay -> set of receipt ids
  upstream,
  \* the records in the local store (db)
  store,
  \* the process: "running", "fatal" (log.Fatalf) or "panic"
  alive,
  \* the admission hook of each connection (Spec):
  \*   pc "idle", "count" (GetZapsTotalFromUser has returned), "decided", or
  \*   "fatalf" (at the log.Fatalf of GetStoredEventsCountFromUser),
  \*   event, userPaidAmount, userNotesCount, reject, msg
  hook,
  \* for each stored record, what the hook that admitted it had observed
  admitted,
  \* HandleBotCommands (SpecBot):
  \*   pc "off", "wait" (on the subscription), "check" (BotCommandFulfilled),
  \*   "balance", "count" (in GetRemainingUserBalance), "publish", or
  \*   "fatalf" (at the log.Fatalf of GetStoredEventsCountFromUser);
  \*   event, fulfilled (what the last BotCommandFulfilled returned),
  \*   userPaidAmount, response, and i, the index of url in relays
  bot,
  \* GM_BOT_PRIVATE_KEY in the environment, or None when it is not set
  gmBotKey,
  \* the replies each upstream relay has stored: relay -> set of events
  replies,
  \* the iterations of the loop of the latest PublishCommandResponseEvent
  attempts,
  \* query id -> times PublishCommandResponseEvent was called for it
  issued,
  \* records the subscription has delivered so far
  seen,
  \* one call of GetZapsTotalFromUser (SpecZaps)
  zpc,        \* "idle", "sub", "sum", "done", "panic"
  zpubkey,    \* the pubkey argument
  subLeft,    \* relay -> stored receipts it has not sent yet
  eose,       \* relay -> its end-of-stored-events has arrived
  dupsLeft,   \* repeated deliveries the subscription may still make
  events,     \* the map events, as the bag of its keys
  remaining,  \* entries of the map the summation loop has yet to visit
  total,      \* the accumulator, in millisatoshi
  counted,    \* the receipts whose amount was added to total, with multiplicity
  panicAt,    \* the receipt at which the call panicked, or None
  zresult,    \* the value returned
  lastResult  \* pubkey -> value the previous call returned on this upstream data,
              \* for the pubkeys that have one

zvars == << zpc, zpubkey, subLeft, eose, dupsLeft, events, remaining, total,
            counted, panicAt, zresult, lastResult >>

gvars == << hook, admitted >>

bvars == << bot, gmBotKey, replies, attempts, issued, seen >>

vars == << upstream, store, alive, zvars, gvars, bvars >>

\* no call has returned on the present upstream data
NoResults == [a \in {} |-> 0]

UpstreamSize == LET RECURSIVE Size(_)
                    Size(i) == IF i = 0 THEN 0
                               ELSE Cardinality(upstream[relays[i]]) + Size(i - 1)
                IN  Size(Len(relays))

\* every receipt some relay holds
Published == UNION { upstream[r] : r \in Relays }

(***************************************************************************)
(* GetZapEventsFromUser, the body of the subscription loop (main.go        *)
(* 110-115): an extraction error skips the event; the event is put in the  *)
(* map when the payer of its description is the pubkey asked for.          *)
(***************************************************************************)
\* the payer of the description is not compared with the pubkey asked for
KeepsEventAnyPayer(zapRequest, pubkey) == ~zapRequest.err

KeepsEvent(zapRequest, pubkey) ==
  /\ ~zapRequest.err
  /\ zapRequest.PubKey = pubkey

\* events[event.ID] = event.Event: a key has one entry however often it is put
\* a list that is appended to, instead of a map keyed by id
MapPutDuplicating(m, id) == m (+) SetToBag({id})

MapPut(m, id) == IF BagIn(id, m) THEN m ELSE m (+) SetToBag({id})

Collect(m, event, pubkey) ==
  IF KeepsEvent(GetZapRequestFromZapEvent(event), pubkey)
  THEN MapPut(m, event.ID)
  ELSE m

(***************************************************************************)
(* GetZapsTotalFromUser, the body of the summation loop (main.go 148-158). *)
(***************************************************************************)
InvoiceAmount(event) ==
  LET bolt11 == ValueFromTag(event, "bolt11")
      decoded == Decodepay(bolt11.value)
  IN  IF bolt11.panic THEN [ panic |-> TRUE, add |-> FALSE, MSatoshi |-> 0 ]
      ELSE IF bolt11.err THEN [ panic |-> FALSE, add |-> FALSE, MSatoshi |-> 0 ]
      ELSE IF decoded.err THEN [ panic |-> FALSE, add |-> FALSE, MSatoshi |-> 0 ]
      ELSE [ panic |-> FALSE, add |-> TRUE, MSatoshi |-> decoded.MSatoshi ]

\* total += decoded.MSatoshi
\* total = decoded.MSatoshi
AccumulateOverwrite(t, msat) == msat

\* each receipt truncated to whole units before it is added
AccumulateWholeUnits(t, msat) == t + (msat \div MilliPerUnit) * MilliPerUnit

Accumulate(t, msat) == t + msat

\* return total / 1000
WholeUnits(t) == t \div MilliPerUnit

(***************************************************************************)
(* The upstream relays: a receipt is published to a relay.  The data is    *)
(* held fixed while a call is in progress.                                 *)
(***************************************************************************)
PublishZap(r, id) ==
  /\ zpc = "idle"
  /\ UpstreamSize < MaxUpstream
  /\ id \notin upstream[r]
  /\ upstream' = [upstream EXCEPT ![r] = @ \cup {id}]
  /\ lastResult' = NoResults
  /\ UNCHANGED << store, alive, gvars, bvars >>
  /\ UNCHANGED << zpc, zpubkey, subLeft, eose, dupsLeft, events, remaining,
                  total, counted, panicAt, zresult >>

(***************************************************************************)
(* GetZapsTotalFromUser(pubkey) is called: GetZapEventsFromUser opens the  *)
(* subscription on all relays with an empty map.                           *)
(***************************************************************************)
CallZapsTotal(pubkey) ==
  /\ zpc = "idle"
  /\ zpc' = "sub"
  /\ zpubkey' = pubkey
  /\ subLeft' = upstream
  /\ eose' = [r \in Relays |-> FALSE]
  /\ dupsLeft' = MaxDup
  /\ events' = EmptyBag
  /\ remaining' = EmptyBag
  /\ total' = 0
  /\ counted' = EmptyBag
  /\ zresult' = 0
  /\ UNCHANGED << store, alive, gvars, bvars >>
  /\ UNCHANGED << upstream, panicAt, lastResult >>

\* one iteration of the loop over pool.SubManyEose: relay r sends a stored event
Deliver(r, id) ==
  /\ zpc = "sub"
  /\ ~eose[r]
  /\ id \in subLeft[r]
  /\ subLeft' = [subLeft EXCEPT ![r] = @ \ {id}]
  /\ events' = Collect(events, ZapEvent(id), zpubkey)
  /\ UNCHANGED << store, alive, gvars, bvars >>
  /\ UNCHANGED << upstream, zpc, zpubkey, eose, dupsLeft, remaining, total,
                  counted, panicAt, zresult, lastResult >>

\* an iteration on an event relay r has sent before
Redeliver(r, id) ==
  /\ zpc = "sub"
  /\ ~eose[r]
  /\ dupsLeft > 0
  /\ id \in upstream[r] \ subLeft[r]
  /\ dupsLeft' = dupsLeft - 1
  /\ events' = Collect(events, ZapEvent(id), zpubkey)
  /\ UNCHANGED << store, alive, gvars, bvars >>
  /\ UNCHANGED << upstream, zpc, zpubkey, subLeft, eose, remaining, total,
                  counted, panicAt, zresult, lastResult >>

\* relay r has sent all it holds and signals end of stored events
Eose(r) ==
  /\ zpc = "sub"
  /\ ~eose[r]
  /\ subLeft[r] = {}
  /\ eose' = [eose EXCEPT ![r] = TRUE]
  /\ UNCHANGED << store, alive, gvars, bvars >>
  /\ UNCHANGED << upstream, zpc, zpubkey, subLeft, dupsLeft, events, remaining,
                  total, counted, panicAt, zresult, lastResult >>

\* the channel of pool.SubManyEose closes, and the range loop ends, when some
\* relay is done
ChannelClosedOnFirstEose == \E r \in Relays : eose[r]

\* the channel of pool.SubManyEose closes, and the range loop ends, when every
\* relay is done
ChannelClosed == \A r \in Relays : eose[r]

\* GetZapEventsFromUser returns the map and the summation starts with
\* total = 0
ZapEventsReturn ==
  /\ zpc = "sub"
  /\ ChannelClosed
  /\ zpc' = "sum"
  /\ remaining' = events
  /\ total' = 0
  /\ UNCHANGED << store, alive, gvars, bvars >>
  /\ UNCHANGED << upstream, zpubkey, subLeft, eose, dupsLeft, events, counted,
                  panicAt, zresult, lastResult >>

\* one iteration of the loop over zapEvents, in the map's (arbitrary) order
SumStep(id) ==
  /\ zpc = "sum"
  /\ BagIn(id, remaining)
  /\ remaining' = remaining (-) SetToBag({id})
  /\ LET amount == InvoiceAmount(ZapEvent(id))
     IN  IF amount.panic
         THEN /\ zpc' = "panic"
              /\ panicAt' = id
              /\ UNCHANGED << total, counted >>
         ELSE /\ UNCHANGED << zpc, panicAt >>
              /\ IF amount.add
                 THEN /\ total' = Accumulate(total, amount.MSatoshi)
                      /\ counted' = counted (+) SetToBag({id})
                 ELSE UNCHANGED << total, counted >>
  /\ UNCHANGED << store, alive, gvars, bvars >>
  /\ UNCHANGED << upstream, zpubkey, subLeft, eose, dupsLeft, events, zresult,
                  lastResult >>

\* the loop is over: return total / 1000
ZapsTotalReturn ==
  /\ zpc = "sum"
  /\ remaining = EmptyBag
  /\ zpc' = "done"
  /\ zresult' = WholeUnits(total)
  /\ UNCHANGED << store, alive, gvars, bvars >>
  /\ UNCHANGED << upstream, zpubkey, subLeft, eose, dupsLeft, events, remaining,
                  total, counted, panicAt, lastResult >>

\* the caller has the value; the next call finds the same upstream data
CallAgain ==
  /\ zpc = "done"
  /\ zpc' = "idle"
  /\ lastResult' = [a \in DOMAIN lastResult \cup {zpubkey} |->
                     IF a = zpubkey THEN zresult ELSE lastResult[a]]
  /\ UNCHANGED << store, alive, gvars, bvars >>
  /\ UNCHANGED << upstream, zpubkey, subLeft, eose, dupsLeft, events, remaining,
                  total, counted, panicAt, zresult >>

Init ==
  /\ upstream = [r \in Relays |-> {}]
  /\ zpc = "idle"
  /\ zpubkey = "alice"
  /\ subLeft = [r \in Relays |-> {}]
  /\ eose = [r \in Relays |-> FALSE]
  /\ dupsLeft = 0
  /\ events = EmptyBag
  /\ remaining = EmptyBag
  /\ total = 0
  /\ counted = EmptyBag
  /\ panicAt = None
  /\ zresult = 0
  /\ lastResult = NoResults
  /\ store = {}
  /\ alive = "running"
  /\ hook = [c \in Conns |-> IdleHook]
  /\ admitted = {}
  /\ bot = BotOff
  /\ gmBotKey = None
  /\ replies = [r \in Relays |-> {}]
  /\ attempts = << >>
  /\ issued = [id \in { q.ID : q \in Queries } |-> 0]
  /\ seen = 0

NextZaps ==
  \/ \E r \in Relays, id \in ZapIds : PublishZap(r, id)
  \/ \E pubkey \in Authors : CallZapsTotal(pubkey)
  \/ \E r \in Relays, id \in ZapIds : Deliver(r, id)
  \/ \E r \in Relays, id \in ZapIds : Redeliver(r, id)
  \/ \E r \in Relays : Eose(r)
  \/ ZapEventsReturn
  \/ \E id \in ZapIds : SumStep(id)
  \/ ZapsTotalReturn
  \/ CallAgain

SpecZaps == Init /\ [][NextZaps]_vars

(***************************************************************************)
(* The same call over relays that may fail.  pool.SubManyEose (go-nostr)   *)
(* runs one goroutine per url and closes the channel when all of them are  *)
(* over; the goroutine of a relay that cannot be reached, or whose         *)
(* connection ends, is over without an end of stored events, whatever the  *)
(* relay had left to send.  eose[r] then stands for "the goroutine of r is *)
(* over".  Nothing bounds the wait for a relay that stays silent.          *)
(***************************************************************************)
RelayDropsOut(r) ==
  /\ zpc = "sub"
  /\ ~eose[r]
  /\ eose' = [eose EXCEPT ![r] = TRUE]
  /\ UNCHANGED << store, alive, gvars, bvars >>
  /\ UNCHANGED << upstream, zpc, zpubkey, subLeft, dupsLeft, events, remaining,
                  total, counted, panicAt, zresult, lastResult >>

\* what the relays have sent to the subscription of the call in progress
Delivered == UNION { upstream[r] \ subLeft[r] : r \in Relays }

NextZapsFaulty ==
  \/ NextZaps
  \/ \E r \in Relays : RelayDropsOut(r)

SpecZapsFaulty == Init /\ [][NextZapsFaulty]_vars

(***************************************************************************)
(* The call when every relay does end its part (it sends what it holds and *)
(* its end of stored events, or it drops out) and the caller's goroutine   *)
(* is scheduled.                                                           *)
(***************************************************************************)
CallProgress ==
  \/ \E r \in Relays, id \in ZapIds : Deliver(r, id)
  \/ \E r \in Relays : Eose(r)
  \/ \E r \in Relays : RelayDropsOut(r)
  \/ ZapEventsReturn
  \/ \E id \in ZapIds : SumStep(id)
  \/ ZapsTotalReturn

\* the receipts the relays hold in this setting: a valid one, one whose
\* extraction fails, one whose invoice does not decode, one whose invoice tag
\* has no value
FairZaps == { "z3", "z5", "z11", "z9" }

NextZapsFair ==
  \/ \E r \in Relays, id \in FairZaps : PublishZap(r, id)
  \/ \E pubkey \in Authors : CallZapsTotal(pubkey)
  \/ \E r \in Relays, id \in ZapIds : Redeliver(r, id)
  \/ CallProgress
  \/ CallAgain

SpecZapsFair == Init /\ [][NextZapsFair]_vars /\ WF_vars(CallProgress)

(***************************************************************************)
(* GetZapsTotalFromUser as a function of the upstream data: the map after  *)
(* a subscription that has delivered every receipt the relays hold, and    *)
(* the sum over it.  SpecZaps shows that every order of delivery and of    *)
(* iteration ends in this value (ZapsTotalAgrees).                         *)
(***************************************************************************)
RECURSIVE CollectAll(_, _, _)
CollectAll(m, S, pubkey) ==
  IF S = {} THEN m
  ELSE LET id == CHOOSE x \in S : TRUE
       IN  CollectAll(Collect(m, ZapEvent(id), pubkey), S \ {id}, pubkey)

GetZapEventsFromUser(pubkey) == CollectAll(EmptyBag, Published, pubkey)

RECURSIVE SumAll(_, _)
SumAll(t, m) ==
  IF m = EmptyBag THEN [ panic |-> FALSE, total |-> t ]
  ELSE LET id == CHOOSE x \in BagToSet(m) : TRUE
           amount == InvoiceAmount(ZapEvent(id))
           rest == m (-) SetToBag({id})
       IN  IF amount.panic THEN [ panic |-> TRUE, total |-> t ]
           ELSE IF amount.add THEN SumAll(Accumulate(t, amount.MSatoshi), rest)
           ELSE SumAll(t, rest)

GetZapsTotalFromUser(pubkey) ==
  LET sum == SumAll(0, GetZapEventsFromUser(pubkey))
  IN  [ panic |-> sum.panic, value |-> WholeUnits(sum.total) ]

ZapsTotalAgrees ==
  /\ zpc = "done" => /\ ~GetZapsTotalFromUser(zpubkey).panic
                     /\ zresult = GetZapsTotalFromUser(zpubkey).value
  /\ zpc = "panic" => GetZapsTotalFromUser(zpubkey).panic

(***************************************************************************)
(* GetStoredEventsCountFromUser: db.CountEvents with an author filter.     *)
(***************************************************************************)
StoredBy(pubkey) == { n \in store : n.PubKey = pubkey }

\* a count that also sees the records other hooks have admitted but not stored
CountWithPending(pubkey) ==
  Cardinality(StoredBy(pubkey))
    + Cardinality({ c \in Conns : /\ hook[c].pc = "decided"
                                  /\ ~hook[c].reject
                                  /\ hook[c].event.PubKey = pubkey })

\* a ledger of the admissions of the author, deleted or not
CountEverAdmitted(pubkey) ==
  Cardinality({ a \in admitted : a.event.PubKey = pubkey })

GetStoredEventsCountFromUser(pubkey) == Cardinality(StoredBy(pubkey))

(***************************************************************************)
(* The admission hook (main.go 76-84), its decision.                       *)
(***************************************************************************)
\* userPaidAmount <= userNotesCount + 1
HookDecisionOffByOne(paid, count) ==
  IF paid <= count + 1
  THEN [ reject |-> TRUE, msg |-> "no sufficient balance; top up" ]
  ELSE [ reject |-> FALSE, msg |-> "" ]

\* userPaidAmount < userNotesCount
HookDecisionOneFree(paid, count) ==
  IF paid < count
  THEN [ reject |-> TRUE, msg |-> "no sufficient balance; top up" ]
  ELSE [ reject |-> FALSE, msg |-> "" ]

HookDecision(paid, count) ==
  IF paid < count + 1
  THEN [ reject |-> TRUE, msg |-> "no sufficient balance; top up" ]
  ELSE [ reject |-> FALSE, msg |-> "" ]

\* the receipts that are published while the relay runs
LiveZaps == { "z3", "z4", "z9" }

\* a receipt reaches the first upstream relay
ZapArrives(id) ==
  /\ alive = "running"
  /\ UpstreamSize < MaxUpstream
  /\ id \notin Published
  /\ upstream' = [upstream EXCEPT ![relays[1]] = @ \cup {id}]
  /\ UNCHANGED << store, alive, zvars, gvars, bvars >>

\* the host calls the hook for a record a client has sent on connection c;
\* the hook calls GetZapsTotalFromUser(event.PubKey)
HookCalled(c, note) ==
  /\ alive = "running"
  /\ hook[c].pc = "idle"
  /\ note \notin store
  /\ \A d \in Conns : hook[d].event # note
  /\ LET paid == GetZapsTotalFromUser(note.PubKey)
     IN  IF paid.panic
         THEN /\ alive' = "panic"
              /\ UNCHANGED hook
         ELSE /\ hook' = [hook EXCEPT ![c] =
                            [ IdleHook EXCEPT !.pc = "count", !.event = note,
                                              !.userPaidAmount = paid.value ]]
              /\ UNCHANGED alive
  /\ UNCHANGED << upstream, store, admitted, zvars, bvars >>

\* a hook that books the record it accepts in the store itself
HookCountSaves(c) ==
  /\ alive = "running"
  /\ hook[c].pc = "count"
  /\ LET count == Cardinality({ n \in store : n.PubKey = hook[c].event.PubKey })
         reject == hook[c].userPaidAmount < count + 1
     IN  /\ hook' = [hook EXCEPT ![c].pc = "decided",
                                 ![c].userNotesCount = count,
                                 ![c].reject = reject,
                                 ![c].msg = IF reject
                                            THEN "no sufficient balance; top up"
                                            ELSE ""]
         /\ store' = IF reject THEN store ELSE store \cup { hook[c].event }
  /\ UNCHANGED << upstream, alive, admitted, zvars, bvars >>

\* GetStoredEventsCountFromUser returns and the hook decides
HookCount(c) ==
  /\ alive = "running"
  /\ hook[c].pc = "count"
  /\ LET count == GetStoredEventsCountFromUser(hook[c].event.PubKey)
         decision == HookDecision(hook[c].userPaidAmount, count)
     IN  hook' = [hook EXCEPT ![c].pc = "decided",
                              ![c].userNotesCount = count,
                              ![c].reject = decision.reject,
                              ![c].msg = decision.msg]
  /\ UNCHANGED << upstream, store, alive, admitted, zvars, bvars >>

\* db.CountEvents fails: log.Fatalf ends the process
HookCountFails(c) ==
  /\ alive = "running"
  /\ hook[c].pc = "count"
  /\ hook' = [hook EXCEPT ![c].pc = "fatalf"]
  /\ alive' = Fatalf
  /\ UNCHANGED << upstream, store, admitted, zvars, bvars >>

\* the host answers the client of a rejected record with msg
HostRejects(c) ==
  /\ alive = "running"
  /\ hook[c].pc = "decided"
  /\ hook[c].reject
  /\ hook' = [hook EXCEPT ![c] = IdleHook]
  /\ UNCHANGED << upstream, store, alive, admitted, zvars, bvars >>

\* relay.StoreEvent: db.SaveEvent stores a record the hook has not rejected
StoreEvent(c) ==
  /\ alive = "running"
  /\ hook[c].pc = "decided"
  /\ ~hook[c].reject
  /\ store' = store \cup { hook[c].event }
  /\ admitted' = admitted \cup
       { [ event |-> hook[c].event,
           userPaidAmount |-> hook[c].userPaidAmount,
           userNotesCount |-> hook[c].userNotesCount ] }
  /\ hook' = [hook EXCEPT ![c] = IdleHook]
  /\ UNCHANGED << upstream, alive, zvars, bvars >>

\* relay.DeleteEvent: db.DeleteEvent removes a stored record
DeleteEvent(note) ==
  /\ alive = "running"
  /\ note \in store
  /\ store' = store \ {note}
  /\ admitted' = { a \in admitted : a.event # note }
  /\ UNCHANGED << upstream, alive, hook, zvars, bvars >>

Next ==
  \/ \E id \in LiveZaps : ZapArrives(id)
  \/ \E c \in Conns, note \in Notes : HookCalled(c, note)
  \/ \E c \in Conns : HookCount(c)
  \/ \E c \in Conns : HookCountFails(c)
  \/ \E c \in Conns : HostRejects(c)
  \/ \E c \in Conns : StoreEvent(c)
  \/ \E note \in Notes : DeleteEvent(note)

Spec == Init /\ [][Next]_vars

(***************************************************************************)
(* The admission path when the host handles one record at a time: a hook   *)
(* is called only when no other is running and the record the last one     *)
(* accepted is stored; receipts arrive between checks; nothing is deleted. *)
(***************************************************************************)
NoCheckInProgress == \A c \in Conns : hook[c].pc = "idle"

\* the receipts published in this setting: valid ones and undecodable ones
SeqZaps == { "z1", "z3", "z4", "z11" }

SeqZapArrives(id) ==
  /\ NoCheckInProgress
  /\ ZapArrives(id)

SeqHookCalled(c, note) ==
  /\ NoCheckInProgress
  /\ HookCalled(c, note)

NextSeq ==
  \/ \E id \in SeqZaps : SeqZapArrives(id)
  \/ \E c \in Conns, note \in Notes : SeqHookCalled(c, note)
  \/ \E c \in Conns : HookCount(c)
  \/ \E c \in Conns : HookCountFails(c)
  \/ \E c \in Conns : HostRejects(c)
  \/ \E c \in Conns : StoreEvent(c)

SpecSeq == Init /\ [][NextSeq]_vars

(***************************************************************************)
(* The same, with the host's delete path (main.go 88).  Here admitted      *)
(* keeps the admissions of deleted records as well: it is the account of   *)
(* every record a hook has accepted and the host has stored.               *)
(***************************************************************************)
SeqDeleteEvent(note) ==
  /\ NoCheckInProgress
  /\ Cardinality({ a.event : a \in admitted } \ store) < MaxDeleted
  /\ alive = "running"
  /\ note \in store
  /\ store' = store \ {note}
  /\ UNCHANGED << upstream, alive, hook, admitted, zvars, bvars >>

\* the records of one author, the payer whose admissions are followed
NotesOfPayer == { n \in Notes : n.PubKey = "alice" }

NextSeqDelete ==
  \/ \E id \in SeqZaps : SeqZapArrives(id)
  \/ \E c \in Conns, note \in NotesOfPayer : SeqHookCalled(c, note)
  \/ \E c \in Conns : HookCount(c)
  \/ \E c \in Conns : HookCountFails(c)
  \/ \E c \in Conns : HostRejects(c)
  \/ \E c \in Conns : StoreEvent(c)
  \/ \E note \in NotesOfPayer : SeqDeleteEvent(note)

SpecSeqDelete == Init /\ [][NextSeqDelete]_vars

(***************************************************************************)
(* regexp.MatchString(`(?mi)\bbalance\b`, content): the word, in any case, *)
(* with no word character (letter, digit, underscore) next to it.          *)
(***************************************************************************)
LowerCase == { "a","b","c","d","e","f","g","h","i","j","k","l","m",
               "n","o","p","q","r","s","t","u","v","w","x","y","z" }
UpperToLower ==
  [ A |-> "a", B |-> "b", C |-> "c", D |-> "d", E |-> "e", F |-> "f",
    G |-> "g", H |-> "h", I |-> "i", J |-> "j", K |-> "k", L |-> "l",
    M |-> "m", N |-> "n", O |-> "o", P |-> "p", Q |-> "q", R |-> "r",
    S |-> "s", T |-> "t", U |-> "u", V |-> "v", W |-> "w", X |-> "x",
    Y |-> "y", Z |-> "z" ]
Digits == { "0","1","2","3","4","5","6","7","8","9" }

ToLower(ch) == IF ch \in DOMAIN UpperToLower THEN UpperToLower[ch] ELSE ch
IsWordChar(ch) == ToLower(ch) \in LowerCase \cup Digits \cup { "_" }

Keyword == << "b","a","l","a","n","c","e" >>

\* the pattern without the word boundaries: `(?mi)balance`
MatchBalanceAnywhere(content) ==
  \E at \in 1..(Len(content) - Len(Keyword) + 1) :
    \A j \in 1..Len(Keyword) : ToLower(content[at + j - 1]) = Keyword[j]

MatchBalance(content) ==
  \E at \in 1..(Len(content) - Len(Keyword) + 1) :
    /\ \A j \in 1..Len(Keyword) : ToLower(content[at + j - 1]) = Keyword[j]
    /\ at = 1 \/ ~IsWordChar(content[at - 1])
    /\ \/ at + Len(Keyword) > Len(content)
       \/ ~IsWordChar(content[at + Len(Keyword)])

(***************************************************************************)
(* BotCommandFulfilled(ID): true when the subscription over the relays     *)
(* delivers an event, that is when a relay that answers holds a text note  *)
(* by botPubkey with an "e" tag of ID.                                     *)
(***************************************************************************)
BotCommandFulfilled(ID, answering) ==
  \E r \in answering : \E ev \in replies[r] : ev.PubKey = botPubkey /\ ev.e = ID

\* an account of the credit alone, whatever is stored
RemainingBalanceIgnoresUsage(paid, count) == paid

\* the balance left once the next record is stored
RemainingBalanceAfterNext(paid, count) == paid - (count + 1)

\* GetRemainingUserBalance: userPaidAmount - userNotesCount
RemainingBalance(paid, count) == paid - count

\* %v of an int64: the decimal digits, after a minus sign when negative
DigitChars == << "0","1","2","3","4","5","6","7","8","9" >>

RECURSIVE FormatNat(_)
FormatNat(n) == IF n < 10 THEN << DigitChars[n + 1] >>
                ELSE FormatNat(n \div 10) \o << DigitChars[(n % 10) + 1] >>

FormatInt(n) == IF n < 0 THEN << "-" >> \o FormatNat(0 - n) ELSE FormatNat(n)

\* fmt.Sprintf("Your balance is %v sats.", userBalance)
Response(userBalance) ==
  << "Your balance is " >> \o FormatInt(userBalance) \o << " sats." >>

\* the event PublishCommandResponseEvent builds and signs: Sign sets PubKey to
\* the public key of the signing key
ResponseEvent(ev, content, sk) ==
  [ PubKey |-> GetPublicKey(sk), Content |-> content, e |-> ev.ID, p |-> ev.PubKey ]

\* the loop over relays stops at the first failure
AfterFailureBreak(i) == Len(relays) + 1

\* continue: the loop goes on with the next url
AfterFailure(i) == i + 1

\* go HandleBotCommands(db), with the environment godotenv has loaded
HandleBotCommands(gm) ==
  /\ alive = "running"
  /\ bot.pc = "off"
  /\ bot' = [bot EXCEPT !.pc = "wait"]
  /\ gmBotKey' = gm
  /\ UNCHANGED << upstream, store, alive, zvars, gvars, replies, attempts,
                  issued, seen >>

\* the subscription (pool.SubMany) delivers a record; it may deliver one again
BotReceives(q) ==
  /\ alive = "running"
  /\ bot.pc = "wait"
  /\ seen < MaxSeen
  /\ seen' = seen + 1
  /\ bot' = [bot EXCEPT !.pc = "check", !.event = q]
  /\ UNCHANGED << upstream, store, alive, zvars, gvars, gmBotKey, replies,
                  attempts, issued >>

\* main.go 199-201: the lookup of an earlier reply, answered by the relays in
\* answering, and the match of the content
BotChecks(answering) ==
  /\ alive = "running"
  /\ bot.pc = "check"
  /\ LET fulfilled == BotCommandFulfilled(bot.event.ID, answering)
     IN  IF ~fulfilled /\ MatchBalance(bot.event.Content)
         THEN bot' = [bot EXCEPT !.pc = "balance", !.fulfilled = FALSE]
         ELSE bot' = [bot EXCEPT !.pc = "wait", !.event = NoQuery,
                                 !.fulfilled = fulfilled]
  /\ UNCHANGED << upstream, store, alive, zvars, gvars, gmBotKey, replies,
                  attempts, issued, seen >>

\* GetRemainingUserBalance: GetZapsTotalFromUser(pubkey)
BotZapsTotal ==
  /\ alive = "running"
  /\ bot.pc = "balance"
  /\ LET paid == GetZapsTotalFromUser(bot.event.PubKey)
     IN  IF paid.panic
         THEN /\ alive' = "panic"
              /\ UNCHANGED bot
         ELSE /\ bot' = [bot EXCEPT !.pc = "count", !.userPaidAmount = paid.value]
              /\ UNCHANGED alive
  /\ UNCHANGED << upstream, store, zvars, gvars, gmBotKey, replies, attempts,
                  issued, seen >>

\* GetStoredEventsCountFromUser returns; the response is formatted and
\* PublishCommandResponseEvent is called: it builds the event and reads
\* GM_BOT_PRIVATE_KEY (GetEnv ends the process when it is not set)
BotCount ==
  /\ alive = "running"
  /\ bot.pc = "count"
  /\ LET count == GetStoredEventsCountFromUser(bot.event.PubKey)
         userBalance == RemainingBalance(bot.userPaidAmount, count)
     IN  bot' = [bot EXCEPT !.pc = "publish", !.response = Response(userBalance),
                            !.i = 1]
  /\ issued' = [issued EXCEPT ![bot.event.ID] = @ + 1]
  /\ attempts' = << >>
  /\ alive' = IF gmBotKey = None THEN Fatalf ELSE alive
  /\ UNCHANGED << upstream, store, zvars, gvars, gmBotKey, replies, seen >>

\* db.CountEvents fails: log.Fatalf ends the process
BotCountFails ==
  /\ alive = "running"
  /\ bot.pc = "count"
  /\ bot' = [bot EXCEPT !.pc = "fatalf"]
  /\ alive' = Fatalf
  /\ UNCHANGED << upstream, store, zvars, gvars, gmBotKey, replies, attempts,
                  issued, seen >>

\* main.go 241-245: nostr.RelayConnect fails for relays[i]
BotConnectFails ==
  /\ alive = "running"
  /\ bot.pc = "publish"
  /\ bot.i <= Len(relays)
  /\ attempts' = Append(attempts, << relays[bot.i], "connect failed" >>)
  /\ bot' = [bot EXCEPT !.i = AfterFailure(bot.i)]
  /\ UNCHANGED << upstream, store, alive, zvars, gvars, gmBotKey, replies,
                  issued, seen >>

\* main.go 246-249: relay.Publish fails for relays[i]
BotPublishFails ==
  /\ alive = "running"
  /\ bot.pc = "publish"
  /\ bot.i <= Len(relays)
  /\ attempts' = Append(attempts, << relays[bot.i], "publish failed" >>)
  /\ bot' = [bot EXCEPT !.i = AfterFailure(bot.i)]
  /\ UNCHANGED << upstream, store, alive, zvars, gvars, gmBotKey, replies,
                  issued, seen >>

\* main.go 251: relays[i] has stored the reply
BotPublishes ==
  /\ alive = "running"
  /\ bot.pc = "publish"
  /\ bot.i <= Len(relays)
  /\ attempts' = Append(attempts, << relays[bot.i], "published" >>)
  /\ replies' = [replies EXCEPT ![relays[bot.i]] =
                   @ \cup { ResponseEvent(bot.event, bot.response, gmBotKey) }]
  /\ bot' = [bot EXCEPT !.i = bot.i + 1]
  /\ UNCHANGED << upstream, store, alive, zvars, gvars, gmBotKey, issued, seen >>

\* the loop over relays is over: PublishCommandResponseEvent returns and the
\* bot takes the next record of the subscription
BotPublishReturns ==
  /\ alive = "running"
  /\ bot.pc = "publish"
  /\ bot.i > Len(relays)
  /\ bot' = [BotOff EXCEPT !.pc = "wait"]
  /\ UNCHANGED << upstream, store, alive, zvars, gvars, gmBotKey, replies,
                  attempts, issued, seen >>

\* the records whose storing and deleting the bot is checked against
BotNotes == { n \in Notes : n.ID[2] = 1 }

\* the host stores a record its hooks have admitted (Spec)
HostStores(note) ==
  /\ alive = "running"
  /\ note \notin store
  /\ store' = store \cup {note}
  /\ UNCHANGED << upstream, alive, zvars, gvars, bvars >>

NextBot ==
  \/ \E gm \in { None, BotPrivateKey, OtherPrivateKey } : HandleBotCommands(gm)
  \/ \E q \in Queries : BotReceives(q)
  \/ \E answering \in SUBSET Relays : BotChecks(answering)
  \/ BotZapsTotal
  \/ BotCount
  \/ BotCountFails
  \/ BotConnectFails
  \/ BotPublishFails
  \/ BotPublishes
  \/ BotPublishReturns
  \/ \E id \in LiveZaps : ZapArrives(id)
  \/ \E note \in BotNotes : HostStores(note)
  \/ \E note \in BotNotes : DeleteEvent(note)

SpecBot == Init /\ [][NextBot]_vars

(***************************************************************************)
(* The relay process as a whole (main.go 76-94): the admission hooks of    *)
(* the connections and the goroutine of HandleBotCommands, in one process. *)
(***************************************************************************)
NextProc ==
  \/ \E id \in LiveZaps : ZapArrives(id)
  \/ \E c \in Conns, note \in BotNotes : HookCalled(c, note)
  \/ \E c \in Conns : HookCount(c)
  \/ \E c \in Conns : HookCountFails(c)
  \/ \E c \in Conns : HostRejects(c)
  \/ \E c \in Conns : StoreEvent(c)
  \/ \E note \in BotNotes : DeleteEvent(note)
  \/ HandleBotCommands(BotPrivateKey)
  \/ \E q \in Queries : BotReceives(q)
  \/ BotChecks(Relays)
  \/ BotZapsTotal
  \/ BotCount
  \/ BotCountFails
  \/ BotPublishFails
  \/ BotPublishes
  \/ BotPublishReturns

SpecProc == Init /\ [][NextProc]_vars


(***************************************************************************)
(* C1. A hook that has observed credit userPaidAmount and usage            *)
(* userNotesCount rejects, with the reason "no sufficient balance; top     *)
(* up", exactly when userPaidAmount < userNotesCount + 1, and accepts,     *)
(* with an empty reason, exactly when userPaidAmount >= userNotesCount + 1.*)
(***************************************************************************)
AdmissionDecision ==
  \A c \in Conns :
    hook[c].pc = "decided" =>
      /\ hook[c].reject <=> hook[c].userPaidAmount < hook[c].userNotesCount + 1
      /\ hook[c].reject => hook[c].msg = "no sufficient balance; top up"
      /\ ~hook[c].reject <=> hook[c].userPaidAmount >= hook[c].userNotesCount + 1
      /\ ~hook[c].reject => hook[c].msg = ""

\* one hook has rejected with credit equal to usage, another has accepted with
\* credit equal to usage + 1
AdmissionDecisionWitness ==
  \E c, d \in Conns :
    /\ hook[c].pc = "decided" /\ hook[c].reject
    /\ hook[c].userPaidAmount = hook[c].userNotesCount
    /\ hook[c].userPaidAmount >= 1
    /\ hook[d].pc = "decided" /\ ~hook[d].reject
    /\ hook[d].userPaidAmount = hook[d].userNotesCount + 1

(***************************************************************************)
(* C2. A check that reads the usage count while another check of the same  *)
(* author has admitted a record that is not stored yet does not see that   *)
(* record: it reads the number of stored records and decides on it, so     *)
(* with credit = usage + 1 both are admitted.                              *)
(***************************************************************************)
ConcurrentChecksSeeStoredOnly ==
  [][ \A c, d \in Conns :
        ( /\ c # d
          /\ hook[d].pc = "decided" /\ ~hook[d].reject
          /\ hook[c].pc = "count" /\ hook'[c].pc = "decided"
          /\ hook[c].event.PubKey = hook[d].event.PubKey )
        => /\ hook'[c].userNotesCount
                = Cardinality(StoredBy(hook[c].event.PubKey))
           /\ hook'[c].reject <=>
                hook[c].userPaidAmount
                  < Cardinality(StoredBy(hook[c].event.PubKey)) + 1 ]_vars

\* two records of an author are stored, both admitted by checks that saw the
\* same usage and a credit of usage + 1, and the author's stored records
\* outnumber the author's credit
OverAdmissionWitness ==
  \E x, y \in admitted :
    /\ x.event # y.event
    /\ x.event.PubKey = y.event.PubKey
    /\ { x.event, y.event } \subseteq store
    /\ x.userNotesCount = y.userNotesCount
    /\ x.userPaidAmount = x.userNotesCount + 1
    /\ y.userPaidAmount = y.userNotesCount + 1
    /\ ~GetZapsTotalFromUser(x.event.PubKey).panic
    /\ Cardinality(StoredBy(x.event.PubKey))
         > GetZapsTotalFromUser(x.event.PubKey).value

(***************************************************************************)
(* C3. PublishCommandResponseEvent is called at most once for any query    *)
(* id, also when the subscription delivers the query again and when        *)
(* publishing fails at some or all relays.                                 *)
(***************************************************************************)
AtMostOneReplyPerQuery == \A id \in DOMAIN issued : issued[id] <= 1

(***************************************************************************)
(* What the receipts of ZapTags are, row by row: the payer named by the    *)
(* description, the amount of a usable invoice, and the malformed shapes.  *)
(***************************************************************************)
NoDescription == { "z5" }
NotJsonDescription == { "z6" }
LacksPayer == { "z7" }
NoInvoiceTag == { "z8" }
InvoiceTagNoValue == { "z9" }
EmptyTagFirst == { "z10" }
InvoiceUndecodable == { "z11" }

ExtractionFails == NoDescription \cup NotJsonDescription \cup LacksPayer
InvoiceUnusable ==
  NoInvoiceTag \cup InvoiceTagNoValue \cup EmptyTagFirst \cup InvoiceUndecodable

Payer == [ id \in ZapIds |->
             IF id \in ExtractionFails THEN None
             ELSE IF id = "z4" THEN "bob" ELSE "alice" ]

ValidAmount == [ z1 |-> 500, z2 |-> 500, z3 |-> 1500, z4 |-> 2000 ]

\* the valid receipts of payer pk
ValidFor(pk) == { id \in DOMAIN ValidAmount : Payer[id] = pk }

RECURSIVE SumMSat(_)
SumMSat(S) == IF S = {} THEN 0
              ELSE LET id == CHOOSE x \in S : TRUE
                   IN  ValidAmount[id] + SumMSat(S \ {id})

(***************************************************************************)
(* C4. Within one call a receipt id contributes its amount exactly once,   *)
(* however many relays deliver it and however often: no id is twice in the *)
(* map or twice in the sum, on return every published valid receipt of the *)
(* payer was added once and nothing else was, and a second call over the   *)
(* same upstream data returns the same credit.                             *)
(***************************************************************************)
ReceiptCountedOnce ==
  /\ \A id \in ZapIds : CopiesIn(id, events) <= 1 /\ CopiesIn(id, counted) <= 1
  /\ zpc = "done" =>
       /\ \A id \in ZapIds :
            CopiesIn(id, counted) =
              IF id \in Published \cap ValidFor(zpubkey) THEN 1 ELSE 0
       /\ zpubkey \in DOMAIN lastResult => zresult = lastResult[zpubkey]

\* a second call has returned a positive credit for a receipt both relays
\* hold, one of them having sent an event twice
ReceiptCountedOnceWitness ==
  /\ zpc = "done"
  /\ zpubkey \in DOMAIN lastResult
  /\ dupsLeft < MaxDup
  /\ zresult > 0
  /\ \E id \in ValidFor(zpubkey) : \A r \in Relays : id \in upstream[r]

(***************************************************************************)
(* C5. The map, and so the sum, only ever holds receipts whose description *)
(* names the pubkey asked for.                                             *)
(***************************************************************************)
OnlyPayersReceipts ==
  \A id \in ZapIds :
    (BagIn(id, events) \/ BagIn(id, remaining) \/ BagIn(id, counted))
      => Payer[id] = zpubkey

\* a call has returned with a receipt of the payer, while a relay also holds a
\* receipt of the other author
OnlyPayersReceiptsWitness ==
  /\ zpc = "done"
  /\ events # EmptyBag
  /\ \E id \in Published : Payer[id] \in Authors \ {zpubkey}

(***************************************************************************)
(* C6. A receipt without a description tag, with a description that is not *)
(* JSON, or with a description without a payer is never put in the map, is *)
(* never added to a sum, and is never where a call stops.                  *)
(***************************************************************************)
ExtractionFailuresSkipped ==
  \A id \in ExtractionFails :
    /\ ~BagIn(id, events)
    /\ ~BagIn(id, counted)
    /\ panicAt # id

\* a call has returned the credit of a valid receipt although a relay had
\* sent a receipt whose extraction fails
ExtractionFailuresSkippedWitness ==
  /\ zpc = "done"
  /\ Published \cap ExtractionFails # {}
  /\ zresult > 0

(***************************************************************************)
(* C7. A receipt with a missing or malformed invoice tag (no "bolt11" tag, *)
(* a "bolt11" tag without a value, an empty tag before it, an invoice that *)
(* does not decode) is left out of the sum and never aborts the summation. *)
(***************************************************************************)
UnusableInvoiceNeverAborts ==
  /\ zpc # "panic"
  /\ \A id \in InvoiceUnusable : ~BagIn(id, counted)

(***************************************************************************)
(* C8. The value returned is the sum of the amounts of the distinct valid  *)
(* receipts of the payer that the relays hold, divided by 1000 rounding    *)
(* down, whatever the order of delivery and of iteration; it is never      *)
(* negative, and 0 when the payer has no valid receipt.                    *)
(***************************************************************************)
CreditIsSumOfValid ==
  zpc = "done" =>
    /\ zresult = SumMSat(Published \cap ValidFor(zpubkey)) \div 1000
    /\ zresult >= 0
    /\ Published \cap ValidFor(zpubkey) = {} => zresult = 0

\* a call has returned the credit of two receipts
CreditIsSumOfValidWitness ==
  /\ zpc = "done"
  /\ Cardinality(BagToSet(counted)) >= 2
  /\ zresult >= 2

(***************************************************************************)
(* C9, as claimed: a receipt of less than 1000 millisatoshi adds nothing   *)
(* to the credit, whatever other receipts the payer has.                   *)
(***************************************************************************)
CreditWithout(id) == SumMSat(BagToSet(counted) \ {id}) \div 1000

SubUnitReceiptAddsNothing ==
  zpc = "done" =>
    \A id \in BagToSet(counted) :
      ValidAmount[id] < 1000 => zresult = CreditWithout(id)

(***************************************************************************)
(* C9, amended: the remainder is dropped from the sum, not from each       *)
(* receipt.  A receipt of less than 1000 millisatoshi adds one unit when   *)
(* its amount and the remainder of the payer's other receipts together     *)
(* reach 1000, and nothing otherwise.                                      *)
(***************************************************************************)
SubUnitReceiptAddsCarry ==
  zpc = "done" =>
    \A id \in BagToSet(counted) :
      ValidAmount[id] < 1000 =>
        zresult - CreditWithout(id) =
          IF (SumMSat(BagToSet(counted) \ {id}) % 1000) + ValidAmount[id] >= 1000
          THEN 1 ELSE 0

\* two receipts of 500 millisatoshi each have given a credit of 1
SubUnitReceiptAddsCarryWitness ==
  /\ zpc = "done"
  /\ BagToSet(counted) = { "z1", "z2" }
  /\ zresult = 1

(***************************************************************************)
(* C10. The loop of PublishCommandResponseEvent makes one attempt (connect,*)
(* then publish when connected) per relay, in list order: the attempts     *)
(* made so far are the first relays of the list, one each, a failure moves *)
(* on to the next relay, and when the call has returned every relay has    *)
(* had its attempt.                                                        *)
(***************************************************************************)
OneAttemptPerRelayInOrder ==
  /\ Len(attempts) <= Len(relays)
  /\ \A k \in DOMAIN attempts : attempts[k][1] = relays[k]
  /\ bot.pc = "publish" => Len(attempts) = bot.i - 1
  /\ (bot.pc # "publish" /\ \E id \in DOMAIN issued : issued[id] > 0)
       => Len(attempts) = Len(relays)

\* a call has returned whose attempt at the first relay failed and whose
\* attempt at the last relay published
OneAttemptPerRelayInOrderWitness ==
  /\ bot.pc = "wait"
  /\ Len(attempts) = Len(relays)
  /\ attempts[1][2] # "published"
  /\ attempts[Len(relays)][2] = "published"

(***************************************************************************)
(* C11. When db.CountEvents fails the process ends: the caller stays at    *)
(* the log.Fatalf (the hook returns no decision, the bot broadcasts no     *)
(* reply and calls no PublishCommandResponseEvent for its query), and once *)
(* the process has ended no hook, no bot step, no store or relay write     *)
(* happens any more.                                                       *)
(***************************************************************************)
CountFailureEndsProcess ==
  [][ /\ \A c \in Conns : hook'[c].pc = "fatalf" => alive' = "fatal"
      /\ bot'.pc = "fatalf" => alive' = "fatal"
      /\ (bot.pc = "count" /\ bot'.pc = "fatalf")
           => /\ issued' = issued
              /\ replies' = replies
      /\ alive = "fatal"
           => UNCHANGED << hook, admitted, store, bot, replies, attempts,
                           issued, seen >> ]_vars

\* the count query of the bot has failed while a hook was waiting for its own
\* count and another record was admitted but not stored: the process has
\* ended and no relay holds a reply to the bot's query
CountFailureEndsProcessWitness ==
  /\ alive = "fatal"
  /\ bot.pc = "fatalf"
  /\ issued[bot.event.ID] = 0
  /\ \A r \in Relays : \A ev \in replies[r] : ev.e # bot.event.ID
  /\ \E c, d \in Conns : /\ hook[c].pc = "count"
                         /\ hook[d].pc = "decided" /\ ~hook[d].reject

(***************************************************************************)
(* C12. A relay that cannot be reached, that drops out, or that sends      *)
(* malformed receipts does not abort the aggregation: the map              *)
(* GetZapEventsFromUser returns holds every receipt of the payer that the  *)
(* relays have delivered, the call does not stop in the summation, and the *)
(* value returned is the credit of the valid receipts delivered.           *)
(***************************************************************************)
Malformed == ExtractionFails \cup InvoiceUnusable

\* a relay has dropped out with receipts unsent, or has sent a malformed one
FaultyEndpoint ==
  \E r \in Relays :
    \/ eose[r] /\ subLeft[r] # {}
    \/ (upstream[r] \ subLeft[r]) \cap Malformed # {}

FaultyEndpointNeverAborts ==
  FaultyEndpoint =>
    /\ zpc \in { "sum", "done", "panic" } =>
         BagToSet(events) = { id \in Delivered : Payer[id] = zpubkey }
    /\ zpc # "panic"
    /\ zpc = "done" =>
         zresult = SumMSat(Delivered \cap ValidFor(zpubkey)) \div 1000

(***************************************************************************)
(* C13. The admission hook and the balance path of the bot only read the   *)
(* local store: no step of a hook (the credit, the count, the decision,    *)
(* the failure of the count) and no step of the bot changes the set of     *)
(* stored records or any author's count; the store only changes when the   *)
(* host saves a record a hook has not rejected or deletes a stored record. *)
(***************************************************************************)
StoreOnlyReadByCore ==
  [][ /\ ( \/ bot' # bot
           \/ \E c \in Conns : /\ hook'[c] # hook[c]
                                /\ hook[c].pc \in { "idle", "count" } )
         => /\ store' = store
            /\ \A a \in Authors :
                 Cardinality({ n \in store' : n.PubKey = a })
                   = Cardinality({ n \in store : n.PubKey = a })
      /\ store' # store
         => \/ \E c \in Conns : /\ hook[c].pc = "decided" /\ ~hook[c].reject
                                 /\ hook'[c] = IdleHook
                                 /\ store' = store \cup { hook[c].event }
            \/ \E note \in store : /\ store' = store \ { note }
                                   /\ hook' = hook ]_vars

\* with a record in the store, a hook has accepted another record and the bot
\* has computed a balance: the store still holds what the host saved
StoreOnlyReadByCoreWitness ==
  /\ store # {}
  /\ store = { a.event : a \in admitted }
  /\ bot.pc = "publish"
  /\ \E c \in Conns : /\ hook[c].pc = "decided" /\ ~hook[c].reject
                      /\ hook[c].event \notin store

(***************************************************************************)
(* C14. A reply to query q has an "e" tag of q's id and a "p" tag of q's   *)
(* author, and its content is "Your balance is N sats." where N is the     *)
(* credit of q's author as GetZapsTotalFromUser found it minus the number  *)
(* of stored records of q's author as the count query found it, both       *)
(* while q was handled; the query in hand does not change on the way.      *)
(***************************************************************************)
BalanceText ==
  [ n \in -2..3 |->
      CASE n = -2 -> << "Your balance is ", "-", "2", " sats." >>
        [] n = -1 -> << "Your balance is ", "-", "1", " sats." >>
        [] n = 0  -> << "Your balance is ", "0", " sats." >>
        [] n = 1  -> << "Your balance is ", "1", " sats." >>
        [] n = 2  -> << "Your balance is ", "2", " sats." >>
        [] n = 3  -> << "Your balance is ", "3", " sats." >> ]

\* the credit of author a on the receipts the relays hold
CreditOf(a) == SumMSat(Published \cap ValidFor(a)) \div 1000

ReplyAnswersItsQuery ==
  [][ /\ (bot.pc = "balance" /\ bot'.pc = "count")
           => /\ bot'.event = bot.event
              /\ bot'.userPaidAmount = CreditOf(bot.event.PubKey)
      /\ (bot.pc = "count" /\ bot'.pc = "publish")
           => /\ bot'.event = bot.event
              /\ bot'.response =
                   BalanceText[bot.userPaidAmount
                                 - Cardinality(StoredBy(bot.event.PubKey))]
      /\ (bot.pc = "publish" /\ bot'.pc = "publish")
           => /\ bot'.event = bot.event
              /\ bot'.response = bot.response
      /\ \A r \in Relays : \A ev \in replies'[r] \ replies[r] :
           /\ bot.pc = "publish"
           /\ ev.e = bot.event.ID
           /\ ev.p = bot.event.PubKey
           /\ ev.Content = bot.response
      /\ \A r \in Relays : \A ev \in replies'[r] :
           \E q \in Queries : \E n \in DOMAIN BalanceText :
             /\ ev.e = q.ID
             /\ ev.p = q.PubKey
             /\ ev.Content = BalanceText[n] ]_vars

\* a relay holds a reply to bob's query that reports a credit of 2 less one
\* stored record, and a reply to alice's query that reports a debt
ReplyAnswersItsQueryWitness ==
  \E r, t \in Relays :
    /\ \E ev \in replies[r] :
         ev.e = "q2" /\ ev.p = "bob" /\ ev.Content = BalanceText[1]
    /\ \E ev \in replies[t] :
         ev.e = "q1" /\ ev.p = "alice" /\ ev.Content = BalanceText[-1]

(***************************************************************************)
(* C15. With checks handled one at a time, the credit of the author fixed  *)
(* while a check runs and nothing deleted, a check accepts exactly while   *)
(* the author's stored records are fewer than the author's credit C and    *)
(* rejects from then on: from usage U0 <= C the gate admits C - U0 more    *)
(* records, and an author never has more than C records stored.            *)
(***************************************************************************)
SequentialAdmissionBounded ==
  [][ /\ \A c \in Conns :
           (hook[c].pc = "count" /\ hook'[c].pc = "decided")
             => ( ~hook'[c].reject <=>
                    Cardinality(StoredBy(hook[c].event.PubKey))
                      < CreditOf(hook[c].event.PubKey) )
      /\ \A a \in Authors :
           Cardinality({ n \in store' : n.PubKey = a })
             <= SumMSat(UNION { upstream'[r] : r \in Relays } \cap ValidFor(a))
                  \div 1000 ]_vars

\* alice has a valid receipt of one unit and one whose invoice does not
\* decode: a record of hers is stored and the check of her next record, which
\* found credit 1 and usage 1, has rejected it
SequentialAdmissionBoundedWitness ==
  /\ Published = { "z3", "z11" }
  /\ Cardinality(StoredBy("alice")) = 1
  /\ \E c \in Conns : /\ hook[c].pc = "decided" /\ hook[c].reject
                      /\ hook[c].event.PubKey = "alice"
                      /\ hook[c].userPaidAmount = 1
                      /\ hook[c].userNotesCount = 1

(***************************************************************************)
(* C16. The bot goes on to the balance and the reply of a record only when *)
(* the lookup of an earlier reply to its id has returned false and its     *)
(* content has "balance" as a whole word, in any case.  A record with      *)
(* "balanced", or one whose lookup found a reply, is dropped: no balance   *)
(* is computed, PublishCommandResponseEvent is not called, nothing is      *)
(* published.  The lookup returns true only when a relay holds a reply by  *)
(* botPubkey to that id.                                                   *)
(***************************************************************************)
\* the queries of the table whose content has the whole word
WholeWordQueries == { "q1", "q2" }

Handling == bot.pc \in { "balance", "count", "publish", "fatalf" }

RepliesOnlyToUnansweredCommands ==
  [][ /\ (bot.pc = "check" /\ bot' # bot) =>
           /\ bot'.pc \in { "balance", "wait" }
           /\ bot'.pc = "balance" =>
                /\ ~bot'.fulfilled
                /\ bot'.event = bot.event
                /\ bot.event.ID \in WholeWordQueries
           /\ bot'.fulfilled =>
                /\ bot'.pc = "wait"
                /\ \E r \in Relays : \E ev \in replies[r] :
                     ev.e = bot.event.ID /\ ev.PubKey = botPubkey
           /\ bot.event.ID \notin WholeWordQueries => bot'.pc = "wait"
      /\ (bot'.pc = "balance" /\ bot.pc # "balance") => bot.pc = "check"
      /\ (bot'.pc \in { "balance", "count", "publish", "fatalf" })
           => /\ ~bot'.fulfilled
              /\ bot'.event.ID \in WholeWordQueries
      /\ (issued' # issued \/ replies' # replies)
           => /\ Handling
              /\ ~bot.fulfilled
              /\ bot.event.ID \in WholeWordQueries
              /\ \A id \in DOMAIN issued : id # bot.event.ID
                                             => issued'[id] = issued[id]
              /\ \A r \in Relays : \A ev \in replies'[r] \ replies[r] :
                   ev.e = bot.event.ID ]_vars

\* the bot has answered q1 once, the subscription has delivered a second
\* record, the lookup for it has found a reply and the record was dropped
RepliesOnlyToUnansweredCommandsWitness ==
  /\ bot.pc = "wait"
  /\ bot.fulfilled
  /\ seen = 2
  /\ issued["q1"] = 1
  /\ \A id \in DOMAIN issued : id # "q1" => issued[id] = 0

(***************************************************************************)
(* C17. GetZapEventsFromUser returns only when every relay of the list has *)
(* sent its end of stored events or has dropped out: while one relay stays *)
(* silent the call stays in the subscription loop, whatever the others     *)
(* did, as nothing bounds the wait; when every relay does end its part,    *)
(* the subscription loop ends and the call comes to its end.               *)
(***************************************************************************)
AggregationWaitsForAllRelays ==
  /\ [](zpc \in { "sum", "done", "panic" } => \A r \in Relays : eose[r])
  /\ [][ (zpc = "sub" /\ \E r \in Relays : ~eose[r] /\ ~eose'[r])
           => zpc' = "sub" ]_vars
  /\ (zpc = "sub" ~> zpc \in { "done", "panic" })

\* a call has returned a credit after one relay had dropped out with a receipt
\* unsent and the other had sent its receipt and its end of stored events
AggregationWaitsForAllRelaysWitness ==
  /\ zpc = "done"
  /\ zresult > 0
  /\ \E r, t \in Relays : /\ subLeft[r] # {}
                          /\ subLeft[t] = {} /\ upstream[t] # {}

(***************************************************************************)
(* C18. Every reply a relay holds is authored by botPubkey, the author     *)
(* BotCommandFulfilled filters on, so that a lookup made for a query to    *)
(* which some relay holds a reply returns true and the query is dropped.   *)
(***************************************************************************)
RepliesAuthoredByLookupIdentity ==
  [][ /\ \A r \in Relays : \A ev \in replies'[r] : ev.PubKey = botPubkey
      /\ ( /\ bot.pc = "check" /\ bot' # bot
           /\ \E r \in Relays : \E ev \in replies[r] : ev.e = bot.event.ID )
         => /\ bot'.fulfilled
            /\ bot'.pc = "wait" ]_vars

(***************************************************************************)
(* C19. On the same credit and the same count the balance and the gate     *)
(* agree: the balance the bot reports is at least 1 exactly when the hook, *)
(* given what the bot has read, accepts a record of the author, and it is  *)
(* negative exactly when the author has more records stored than credit.   *)
(***************************************************************************)
BalanceAgreesWithGate ==
  [][ (bot.pc = "count" /\ bot'.pc = "publish") =>
        LET paid == bot.userPaidAmount
            count == GetStoredEventsCountFromUser(bot.event.PubKey)
        IN  \E n \in DOMAIN BalanceText :
              /\ bot'.response = BalanceText[n]
              /\ n >= 1 <=> ~HookDecision(paid, count).reject
              /\ n < 0 <=> Cardinality(StoredBy(bot.event.PubKey)) > paid ]_vars

\* the bot reports a negative balance to alice, who has a record stored and
\* no credit, after it has reported a balance of 1 to bob, whose credit of 2
\* covers his stored record and one more
BalanceAgreesWithGateWitness ==
  /\ bot.pc = "publish"
  /\ bot.event.PubKey = "alice"
  /\ bot.response = BalanceText[-1]
  /\ Cardinality(StoredBy("alice")) = 1
  /\ \E r \in Relays : \E ev \in replies[r] :
       ev.p = "bob" /\ ev.Content = BalanceText[1]
  /\ Cardinality(StoredBy("bob")) = 1
  /\ ~HookDecision(CreditOf("bob"), Cardinality(StoredBy("bob"))).reject
  /\ HookDecision(CreditOf("alice"), Cardinality(StoredBy("alice"))).reject

(***************************************************************************)
(* C20. The usage a check reads is the number of records of the author     *)
(* stored now, whatever was admitted and deleted before: also with checks  *)
(* one at a time, a check accepts exactly when the records stored now are  *)
(* fewer than the credit, so that a delete frees one admission and the     *)
(* admissions of an author over a run can outnumber the author's credit.   *)
(***************************************************************************)
UsageIsCurrentCount ==
  [][ \A c \in Conns :
        (hook[c].pc = "count" /\ hook'[c].pc = "decided")
          => /\ hook'[c].userNotesCount
                  = Cardinality({ n \in store : n.PubKey = hook[c].event.PubKey })
             /\ ~hook'[c].reject <=>
                  Cardinality({ n \in store : n.PubKey = hook[c].event.PubKey })
                    < CreditOf(hook[c].event.PubKey) ]_vars

\* alice's credit is 1 and no receipt has arrived since her first admission:
\* a record of hers was admitted and stored, then deleted, and another record
\* of hers was admitted on the same credit and is stored
UsageIsCurrentCountWitness ==
  /\ CreditOf("alice") = 1
  /\ Cardinality(StoredBy("alice")) = 1
  /\ \E x, y \in admitted :
       /\ x.event.PubKey = "alice" /\ y.event.PubKey = "alice"
       /\ x.event # y.event
       /\ x.event \notin store /\ y.event \in store
       /\ x.userPaidAmount = 1 /\ y.userPaidAmount = 1
       /\ x.userNotesCount = 0 /\ y.userNotesCount = 0
  /\ Cardinality({ a \in admitted : a.event.PubKey = "alice" })
       > CreditOf("alice")

=============================================================================
